---- MODULE Spec2Model ----
(***************************************************************************)
(* Deployment orchestration of elaas-backend: the deploy and destroy       *)
(* workers, the cancel / deploy / destroy request handlers, the expiry     *)
(* sweep, the process registry and the batch finalizers, as a state        *)
(* machine over the persisted deployment rows and the workshop row.        *)
(*                                                                         *)
(* Scheduling.  The request handlers are "async def" functions that call   *)
(* the synchronous services without awaiting, so one handler (or the       *)
(* sweep) occupies the event loop at a time: variable loop.  The workers   *)
(* added with background_tasks.add_task run in threads; the tasks of one   *)
(* request are run one after another (field after of a thread), the tasks  *)
(* of different requests run concurrently.  The sweep calls                *)
(* destroy_workshop_async directly, so its destroys run inline on the      *)
(* event loop (thread 0).                                                  *)
(***************************************************************************)
EXTENDS Integers, Sequences, FiniteSets, TLC

\* ---------------------------------------------------------------- bounds
MaxRuns == 2
MaxPhases == 2
MaxCancels == 1
MaxFaults == 1
MaxLines == 3

\* ------------------------------------------------------------- vocabulary
GroupTemplates == <<"T1", "T2">>
SingleTemplate == "T1"
TerminalStatuses == {"deployed", "failed", "cancelled"}
NoKey == <<>>

VARIABLES
    ws,        \* the workshop row: [id, group, status]
    deps,      \* the deployments table, in creation order
    wk,        \* worker threads: 0 is the sweep's inline worker, t > 0 runs deployment t
    loop,      \* what the event loop is doing: idle, a cancel handler, or the sweep
    registry,  \* process_registry._registry: deployment id -> apply phase handle (0 = absent)
    s3,        \* the state bucket: objects [key, resources] (resources: the state lists any)
    hist       \* history: run counter and budget, accepted cancels, cancel count,
               \* and how many more collaborator calls may raise
VARIABLES
    lb,        \* the log batcher of one worker run and the persisted logs of its deployment
    tfv        \* the variable map of one deploy request on its way to the tfvars file

\* the part of the state the orchestration actions leave alone
detail == <<lb, tfv>>

vars == <<ws, deps, wk, loop, registry, s3, hist, lb, tfv>>

\* every run creates at most one deployment per template of the group
MaxOps == MaxRuns * Len(GroupTemplates)
Threads == 0 .. MaxOps
OpIds == 1 .. MaxOps

\* ------------------------------------------------------ remote state key
StateKeyDeploy(workshop_id, template_id) ==
    <<"terraform-state", "workshops", workshop_id, "templates", template_id, "terraform.tfstate">>

StateKeyDestroyMutant(workshop_id, template_id) ==
    <<"terraform-state", "workshops", workshop_id, "terraform.tfstate">>

StateKeyDestroy(workshop_id, template_id) ==
    <<"terraform-state", "workshops", workshop_id, "templates", template_id, "terraform.tfstate">>

\* _check_state_exists: HEAD of the state object; a probe error counts as absent
check_state_existsMutant(bucket, state_key) == TRUE

check_state_exists(bucket, state_key) == \E obj \in bucket : obj.key = state_key

\* terraform writes the state object of its backend: apply with the resources
\* it created, destroy with none left (the object itself stays in the bucket)
put_state(bucket, state_key, resources) ==
    {obj \in bucket : obj.key # state_key} \cup {[key |-> state_key, resources |-> resources]}

apply_writes_state(bucket, state_key) == put_state(bucket, state_key, TRUE)

destroy_writes_state(bucket, state_key) == put_state(bucket, state_key, FALSE)

\* ------------------------------------------------------------ persistence
WorkshopId(group) == IF group THEN "W2" ELSE "W1"

get_template_ids_for_workshop ==
    IF ws.group THEN GroupTemplates ELSE <<SingleTemplate>>

create_deployment(table, template_id, kind, run) ==
    Append(table, [tpl |-> template_id, status |-> "pending", key |-> NoKey,
                   err |-> FALSE, kind |-> kind, run |-> run])

\* list_deployments_by_workshop: ids, newest first
RECURSIVE NewestFirst(_)
NewestFirst(n) == IF n = 0 THEN <<>> ELSE <<n>> \o NewestFirst(n - 1)

list_deployments_by_workshop == NewestFirst(Len(deps))

Take(s, n) == IF Len(s) >= n THEN SubSeq(s, 1, n) ELSE s

SeqRange(s) == {s[i] : i \in 1 .. Len(s)}

\* deployments[:N] if len(deployments) >= N else deployments
CurrentBatch == SeqRange(Take(list_deployments_by_workshop, Len(get_template_ids_for_workshop)))

update_deployment_status(table, id, status) ==
    [table EXCEPT ![id].status = status]

\* ------------------------------------------------------------ thread state
IdleThread ==
    [pc |-> "idle", kind |-> "none", op |-> 0, after |-> 0, buf |-> FALSE,
     res |-> "none", error |-> "none", raised |-> FALSE, sub |-> "none", phase |-> 0,
     killed |-> FALSE, hung |-> FALSE, agg |-> "none", key |-> NoKey]

QueuedThread(kind, op, after) ==
    [IdleThread EXCEPT !.pc = "queued", !.kind = kind, !.op = op, !.after = after]

IdleLoop == [pc |-> "idle", op |-> 0, h |-> 0, todo |-> <<>>]

\* ------------------------------------------------------------ log batcher
LogThreads == {"worker", "reader"}

BatcherThread == [pc |-> "off", cb |-> "none", arg |-> <<>>, existing |-> <<>>, read_ok |-> FALSE]

\* no worker run is being looked at in detail
BatcherOff ==
    [logs |-> <<>>, status |-> "pending", log_buffer |-> <<>>, elapsed |-> FALSE, next |-> 1,
     calls |-> <<>>, faults |-> 0, th |-> [x \in LogThreads |-> BatcherThread]]

\* ---------------------------------------------------------- variable maps
\* _prepare_variables: credential_keys
credential_keys ==
    {"aws_access_key_id", "aws_secret_access_key", "AWS_ACCESS_KEY_ID", "AWS_SECRET_ACCESS_KEY",
     "gcp_project_id", "gcp_service_account_key", "GOOGLE_PROJECT", "GOOGLE_APPLICATION_CREDENTIALS",
     "azure_subscription_id", "azure_client_id", "azure_client_secret", "azure_tenant_id",
     "ARM_SUBSCRIPTION_ID", "ARM_CLIENT_ID", "ARM_CLIENT_SECRET", "ARM_TENANT_ID",
     "mongodb_public_key", "mongodb_private_key", "MONGODB_ATLAS_PUBLIC_KEY", "MONGODB_ATLAS_PRIVATE_KEY",
     "snowflake_account", "snowflake_user", "snowflake_password", "snowflake_warehouse",
     "SNOWFLAKE_ACCOUNT", "SNOWFLAKE_USER", "SNOWFLAKE_PASSWORD", "SNOWFLAKE_WAREHOUSE"}

\* the keys _obfuscate_terraform_vars leaves out
obfuscated_keys ==
    {"aws_access_key_id", "aws_secret_access_key", "AWS_ACCESS_KEY_ID", "AWS_SECRET_ACCESS_KEY"}

\* {k: v for k, v in d.items() if k not in keys}
Without(d, keys) == [k \in (DOMAIN d) \ keys |-> d[k]]

\* if not vars_dict: return {}   (the empty map is the map that is returned)
_obfuscate_terraform_vars(vars_dict) == Without(vars_dict, obfuscated_keys)

_prepare_variablesMutant(user_vars) == user_vars
_prepare_variables(user_vars) == Without(user_vars, credential_keys)

\* the keys and values a caller's map is drawn from: one credential key of
\* each provider and two ordinary variables
VarKeys ==
    {"aws_secret_access_key", "gcp_service_account_key", "ARM_CLIENT_SECRET",
     "mongodb_private_key", "SNOWFLAKE_PASSWORD", "region", "instance_type"}

MaxValue == 2

VarMaps == UNION {[keys -> 1 .. MaxValue] : keys \in SUBSET VarKeys}

\* no deploy request is being looked at in detail
VarsOff == [pc |-> "off", terraform_vars |-> <<>>, stored |-> <<>>, tfvars |-> <<>>]

Init ==
    /\ tfv = VarsOff
    /\ ws \in {[id |-> WorkshopId(g), group |-> g, status |-> "pending"] : g \in BOOLEAN}
    /\ deps = <<>>
    /\ wk = [t \in Threads |-> IdleThread]
    /\ loop = IdleLoop
    /\ registry = [o \in OpIds |-> 0]
    /\ s3 = {}
    /\ lb = BatcherOff
    /\ hist = [run |-> 0, budget |-> MaxRuns, accepted |-> {}, acceptedRunning |-> {},
               cancels |-> 0, maxCancels |-> MaxCancels, faults |-> 0]

\* ------------------------------------------------------- deploy_workshop
\* POST /workshops/{id}/deploy: one pending deployment and one worker per
\* template; no check of the workshop's or the deployments' status.
deploy_workshop ==
    LET tids == get_template_ids_for_workshop
        n == Len(tids)
        base == Len(deps)
        run == hist.run + 1
    IN  /\ loop.pc = "idle"
        /\ hist.run < hist.budget
        /\ base + n <= MaxOps
        /\ deps' = deps \o [i \in 1 .. n |->
                       [tpl |-> tids[i], status |-> "pending", key |-> NoKey,
                        err |-> FALSE, kind |-> "deploy", run |-> run]]
        /\ ws' = [ws EXCEPT !.status = "deploying"]
        /\ wk' = [t \in Threads |->
                    IF t \in (base + 1) .. (base + n)
                    THEN QueuedThread("deploy", t, IF t = base + 1 THEN 0 ELSE t - 1)
                    ELSE wk[t]]
        /\ hist' = [hist EXCEPT !.run = run]
        /\ UNCHANGED <<loop, registry, s3, detail>>

\* ------------------------------------------------------------- workers
Op(t) == wk[t].op

\* a background task starts when the tasks added before it by the same
\* request have returned and the event loop is free to schedule it
CanStart(t) ==
    /\ t > 0
    /\ wk[t].pc = "queued"
    /\ loop.pc = "idle"
    /\ wk[t].after = 0 \/ wk[wk[t].after].pc = "done"

Finished(t) == [IdleThread EXCEPT !.pc = "done", !.kind = wk[t].kind, !.op = wk[t].op,
                                  !.after = wk[t].after]

\* a call of a collaborator (persistence, template lookup, executor
\* construction) returns ("none") or raises an exception with the given text;
\* str() of the exception may be empty
Faults == IF hist.faults > 0 THEN {"none", "", "msg"} ELSE {"none"}

Spend(fault) == hist' = IF fault = "none" THEN hist ELSE [hist EXCEPT !.faults = @ - 1]

\* the except branch of the worker: the deploy worker re-reads the status
\* first, the destroy worker writes failed at once
Raised(t, fault) ==
    [wk[t] EXCEPT !.pc = IF wk[t].kind = "deploy" THEN "w_chk" ELSE "w_fail",
                  !.res = "exc", !.error = fault, !.raised = TRUE]

\* process_registry.register / unregister
register(reg, deployment_id, process) == [reg EXCEPT ![deployment_id] = process]

unregisterMutant(reg, deployment_id) == reg
unregister(reg, deployment_id) == [reg EXCEPT ![deployment_id] = 0]

\* _flush_logs: a non-empty buffer is written with status "deploying"
flush_logs(table, id, log_buffer) ==
    IF log_buffer THEN update_deployment_status(table, id, "deploying") ELSE table

\* where the worker goes after deployer.deploy / destroy returned and the
\* finally block ran (the destroy worker has no cancelled check)
AfterResult(kind, res) ==
    IF res = "ok" THEN "w_ok" ELSE IF kind = "deploy" THEN "w_chk" ELSE "w_fail"

\* the worker's finally block: _flush_logs(), and unregister in the deploy worker
WorkerFinally(t, res, error) ==
    /\ deps' = flush_logs(deps, Op(t), wk[t].buf)
    /\ registry' = IF wk[t].kind = "deploy" THEN unregister(registry, Op(t)) ELSE registry
    /\ wk' = [wk EXCEPT ![t].buf = FALSE, ![t].res = res, ![t].sub = "none",
                        ![t].error = error,
                        ![t].killed = FALSE, ![t].hung = FALSE, ![t].phase = 0,
                        ![t].pc = AfterResult(wk[t].kind, res)]

\* deploy_workshop_async, lines 35-37: a deployment already cancelled is not run
deploy_start(t) ==
    /\ CanStart(t)
    /\ wk[t].kind = "deploy"
    /\ \E fault \in Faults :
         /\ wk' = [wk EXCEPT ![t] = IF fault # "none" THEN Raised(t, fault)
                                     ELSE IF deps[Op(t)].status = "cancelled"
                                          THEN Finished(t)
                                          ELSE [@ EXCEPT !.pc = "begin"]]
         /\ Spend(fault)
    /\ UNCHANGED <<ws, deps, loop, registry, s3, detail>>

\* destroy_workshop_async started as a background task: the deployment id
\* is given, its status is not looked at
destroy_start(t) ==
    /\ CanStart(t)
    /\ wk[t].kind = "destroy"
    /\ \E fault \in Faults :
         /\ wk' = [wk EXCEPT ![t] = IF fault # "none" THEN Raised(t, fault)
                                     ELSE [@ EXCEPT !.pc = "begin"]]
         /\ Spend(fault)
    /\ UNCHANGED <<ws, deps, loop, registry, s3, detail>>

\* both workers: update_deployment_status(id, "deploying", logs=["Starting ..."])
worker_set_deploying(t) ==
    /\ wk[t].pc = "begin"
    /\ \E fault \in Faults :
         /\ deps' = IF fault = "none" THEN update_deployment_status(deps, Op(t), "deploying")
                     ELSE deps
         /\ wk' = [wk EXCEPT ![t] = IF fault = "none" THEN [@ EXCEPT !.pc = "exec"]
                                     ELSE Raised(t, fault)]
         /\ Spend(fault)
    /\ UNCHANGED <<ws, loop, registry, s3, detail>>

\* the deploy worker from the download of the bundle to the start of
\* terraform init: the download raises, or TerraformDeployer.deploy finds no
\* .tf files and returns a failure, or _init_backend logs and runs init
deploy(t) ==
    /\ wk[t].pc = "exec"
    /\ wk[t].kind = "deploy"
    /\ \E outcome \in {"download_raises", "no_tf_files", "init"} :
         CASE outcome = "download_raises" ->
                /\ wk' = [wk EXCEPT ![t].res = "exc", ![t].error = "msg", ![t].raised = TRUE,
                                    ![t].pc = "w_chk"]
                /\ UNCHANGED <<deps, registry>>
           [] outcome = "no_tf_files" -> WorkerFinally(t, "fail", "no_tf_files")
           [] outcome = "init" ->
                /\ wk' = [wk EXCEPT ![t].pc = "init_wait", ![t].sub = "init", ![t].buf = TRUE,
                                    ![t].key = StateKeyDeploy(ws.id, deps[Op(t)].tpl)]
                /\ UNCHANGED <<deps, registry>>
    /\ UNCHANGED <<ws, loop, s3, hist, detail>>

\* the destroy worker from the download to the start of terraform init;
\* TerraformDeployer.destroy fails when the state object does not exist
destroy(t) ==
    /\ wk[t].pc = "exec"
    /\ wk[t].kind = "destroy"
    /\ \E outcome \in {"download_raises", "no_tf_files", "init"} :
         LET state_key == StateKeyDestroy(ws.id, deps[Op(t)].tpl)
             state_exists == check_state_exists(s3, state_key)
         IN  CASE outcome = "download_raises" ->
                    /\ wk' = [wk EXCEPT ![t].res = "exc", ![t].error = "msg", ![t].raised = TRUE,
                                        ![t].pc = "w_fail"]
                    /\ UNCHANGED <<deps, registry>>
               [] outcome = "no_tf_files" -> WorkerFinally(t, "fail", "no_tf_files")
               [] outcome = "init" /\ ~state_exists ->
                    /\ deps' = flush_logs(deps, Op(t), wk[t].buf)
                    /\ wk' = [wk EXCEPT ![t].res = "fail", ![t].error = "state_not_found",
                                        ![t].key = state_key,
                                        ![t].pc = AfterResult("destroy", "fail")]
                    /\ UNCHANGED registry
               [] OTHER ->
                    /\ wk' = [wk EXCEPT ![t].pc = "init_wait", ![t].sub = "init", ![t].buf = TRUE,
                                        ![t].key = state_key]
                    /\ UNCHANGED <<deps, registry>>
    /\ UNCHANGED <<ws, loop, s3, hist, detail>>

\* the sub-command a worker is waiting for never exits on its own
subprocess_hangs(t) ==
    /\ wk[t].pc \in {"init_wait", "apply_wait", "destroy_wait", "output_wait"}
    /\ ~wk[t].hung
    /\ ~wk[t].killed
    /\ wk' = [wk EXCEPT ![t].hung = TRUE]
    /\ UNCHANGED <<ws, deps, loop, registry, s3, hist, detail>>

\* how a subprocess.run with a timeout ends: the sub-command exits with a
\* code, or the timeout expires and TimeoutExpired is raised
RunOutcomes(t, ok, failed) == IF wk[t].hung THEN {failed} ELSE {ok, failed}

\* _init_backend: subprocess.run(terraform init, timeout=300) returns.  On
\* failure the deployer returns a failure; on success deploy starts the first
\* apply (Popen, register) and destroy runs subprocess.run(terraform destroy)
init_backend(t) ==
    /\ wk[t].pc = "init_wait"
    /\ \E rc \in RunOutcomes(t, "ok", "err") :
         CASE rc = "err" -> WorkerFinally(t, "fail", "msg")
           [] rc = "ok" /\ wk[t].kind = "deploy" ->
                /\ wk' = [wk EXCEPT ![t].pc = "apply_wait", ![t].sub = "apply", ![t].phase = 1]
                /\ registry' = register(registry, Op(t), 1)
                /\ UNCHANGED deps
           [] OTHER ->
                /\ wk' = [wk EXCEPT ![t].pc = "destroy_wait", ![t].sub = "destroy"]
                /\ UNCHANGED <<deps, registry>>
    /\ UNCHANGED <<ws, loop, s3, hist, detail>>

\* the stream thread hands a line to log_callback; once the flush interval
\* has elapsed the callback flushes the buffer
log_callback(t) ==
    /\ wk[t].pc = "apply_wait"
    /\ ~wk[t].killed
    /\ \E interval_elapsed \in BOOLEAN :
         IF interval_elapsed
         THEN /\ wk[t].buf
              /\ deps' = flush_logs(deps, Op(t), TRUE)
              /\ wk' = [wk EXCEPT ![t].buf = FALSE]
         ELSE /\ ~wk[t].buf
              /\ wk' = [wk EXCEPT ![t].buf = TRUE]
              /\ UNCHANGED deps
    /\ UNCHANGED <<ws, loop, registry, s3, hist, detail>>

apply_terraform_exitMutant(t) ==
    /\ wk[t].pc = "apply_wait"
    /\ wk[t].hung => wk[t].killed
    /\ registry' = unregister(registry, Op(t))
    /\ \E rc \in IF wk[t].killed THEN {"err"} ELSE {"ok", "err"},
          more \in IF wk[t].phase < MaxPhases THEN BOOLEAN ELSE {FALSE} :
         /\ wk' = [wk EXCEPT ![t] =
                     IF more
                     THEN [@ EXCEPT !.pc = "apply_spawn", !.sub = "none", !.phase = @ + 1,
                                    !.killed = FALSE, !.hung = FALSE]
                     ELSE IF rc = "err"
                          THEN [@ EXCEPT !.pc = "flush", !.res = "fail", !.sub = "none",
                                         !.killed = FALSE, !.hung = FALSE]
                          ELSE [@ EXCEPT !.pc = "output_wait", !.sub = "output"]]
         /\ s3' = IF rc = "ok" THEN apply_writes_state(s3, wk[t].key) ELSE s3
    /\ UNCHANGED <<ws, deps, loop, hist, detail>>

\* _apply_terraform / _apply_terraform_phased: proc.wait() returns, the
\* worker unregisters and checks the return code (non-zero for a terminated
\* process); an apply that exits 0 has written the state object; the manifest
\* may name a further phase
apply_terraform_exit(t) ==
    /\ wk[t].pc = "apply_wait"
    /\ wk[t].hung => wk[t].killed
    /\ registry' = unregister(registry, Op(t))
    /\ \E rc \in IF wk[t].killed THEN {"err"} ELSE {"ok", "err"},
          more \in IF wk[t].phase < MaxPhases THEN BOOLEAN ELSE {FALSE} :
         /\ wk' = [wk EXCEPT ![t] =
                     IF rc = "err"
                     THEN [@ EXCEPT !.pc = "flush", !.res = "fail", !.sub = "none",
                                    !.killed = FALSE, !.hung = FALSE]
                     ELSE IF more
                          THEN [@ EXCEPT !.pc = "apply_spawn", !.sub = "none", !.phase = @ + 1]
                          ELSE [@ EXCEPT !.pc = "output_wait", !.sub = "output"]]
         /\ s3' = IF rc = "ok" THEN apply_writes_state(s3, wk[t].key) ELSE s3
    /\ UNCHANGED <<ws, deps, loop, hist, detail>>

\* _apply_terraform_phased, next phase: Popen, then register
apply_terraform_phased(t) ==
    /\ wk[t].pc = "apply_spawn"
    /\ wk' = [wk EXCEPT ![t].pc = "apply_wait", ![t].sub = "apply"]
    /\ registry' = register(registry, Op(t), wk[t].phase)
    /\ UNCHANGED <<ws, deps, loop, s3, hist, detail>>

\* the finally block of the deploy worker after a failed apply
worker_finally(t) ==
    /\ wk[t].pc = "flush"
    /\ WorkerFinally(t, "fail", "msg")
    /\ UNCHANGED <<ws, loop, s3, hist, detail>>

\* subprocess.run(terraform output -json, timeout=60) returns or times out,
\* deploy returns, the worker's finally block runs
terraform_output(t) ==
    /\ wk[t].pc = "output_wait"
    /\ \E r \in RunOutcomes(t, "ok", "fail") :
         WorkerFinally(t, r, IF r = "ok" THEN "none" ELSE "msg")
    /\ UNCHANGED <<ws, loop, s3, hist, detail>>

\* _destroy_terraform: subprocess.run(terraform destroy, timeout=1800)
\* returns, destroy returns, the worker's finally block runs
destroy_terraform(t) ==
    /\ wk[t].pc = "destroy_wait"
    /\ \E r \in RunOutcomes(t, "ok", "fail") :
         /\ WorkerFinally(t, r, IF r = "ok" THEN "none" ELSE "msg")
         /\ s3' = IF r = "ok" THEN destroy_writes_state(s3, wk[t].key) ELSE s3
    /\ UNCHANGED <<ws, loop, hist, detail>>

\* success: status "deployed" with the state key; when the write raises the
\* worker goes to its except branch
worker_set_deployed(t) ==
    /\ wk[t].pc = "w_ok"
    /\ \E fault \in Faults :
         /\ deps' = IF fault = "none"
                     THEN [deps EXCEPT ![Op(t)].status = "deployed", ![Op(t)].key = wk[t].key]
                     ELSE deps
         /\ wk' = [wk EXCEPT ![t] =
                     IF fault = "none"
                     THEN [@ EXCEPT !.pc = IF wk[t].kind = "deploy" THEN "w_out" ELSE "fin_read"]
                     ELSE Raised(t, fault)]
         /\ Spend(fault)
    /\ UNCHANGED <<ws, loop, registry, s3, detail>>

worker_store_outputMutant(t) ==
    /\ wk[t].pc = "w_out"
    /\ \E fault \in Faults :
         /\ deps' = IF fault = "none" THEN update_deployment_status(deps, Op(t), "deployed")
                     ELSE deps
         /\ wk' = [wk EXCEPT ![t] = IF fault = "none" THEN [@ EXCEPT !.pc = "fin_read"]
                                     ELSE Raised(t, fault)]
         /\ Spend(fault)
    /\ UNCHANGED <<ws, loop, registry, s3, detail>>

\* deploy worker, lines 117-125: second write, status "deployed" with the
\* output; a failure of this write is logged only
worker_store_output(t) ==
    /\ wk[t].pc = "w_out"
    /\ \E fault \in Faults :
         /\ deps' = IF fault = "none" THEN update_deployment_status(deps, Op(t), "deployed")
                     ELSE deps
         /\ Spend(fault)
    /\ wk' = [wk EXCEPT ![t].pc = "fin_read"]
    /\ UNCHANGED <<ws, loop, registry, s3, detail>>

\* deploy worker, failure and exception branches: re-read of the status.  When
\* the read raises, the failure branch goes on to write failed (line 138), the
\* exception branch skips the write (line 170)
worker_check_cancelled(t) ==
    /\ wk[t].pc = "w_chk"
    /\ \E fault \in Faults :
         /\ wk' = [wk EXCEPT ![t].pc =
                     IF fault # "none"
                     THEN (IF wk[t].res = "exc" THEN "fin_read" ELSE "w_fail")
                     ELSE IF deps[Op(t)].status = "cancelled" THEN "w_cpend" ELSE "w_fail",
                            ![t].raised = @ \/ fault # "none"]
         /\ Spend(fault)
    /\ UNCHANGED <<ws, deps, loop, registry, s3, detail>>

\* deploy worker saw "cancelled": workshop back to pending, return; when that
\* write raises, the failure branch goes on to write failed and the exception
\* branch goes to the finalizer
worker_cancelled_return(t) ==
    /\ wk[t].pc = "w_cpend"
    /\ \E fault \in Faults :
         /\ ws' = IF fault = "none" THEN [ws EXCEPT !.status = "pending"] ELSE ws
         /\ wk' = [wk EXCEPT ![t] =
                     IF fault = "none" THEN Finished(t)
                     ELSE [@ EXCEPT !.pc = IF wk[t].res = "exc" THEN "fin_read" ELSE "w_fail",
                                    !.raised = TRUE]]
         /\ Spend(fault)
    /\ UNCHANGED <<deps, loop, registry, s3, detail>>

\* status "failed" with the error message (written when it is not empty).
\* When the write raises: the deploy worker logs and goes to the finalizer; the
\* destroy worker's failure branch falls into its except branch, which writes
\* failed again; the destroy worker's except branch returns
worker_set_failed(t) ==
    /\ wk[t].pc = "w_fail"
    /\ \E fault \in Faults :
         /\ deps' = IF fault = "none"
                     THEN [deps EXCEPT ![Op(t)].status = "failed",
                                       ![Op(t)].err = IF wk[t].error # "" THEN TRUE ELSE @]
                     ELSE deps
         /\ wk' = [wk EXCEPT ![t] =
                     IF fault = "none" \/ wk[t].kind = "deploy"
                     THEN [@ EXCEPT !.pc = "fin_read", !.raised = @ \/ fault # "none"]
                     ELSE IF wk[t].res = "exc" THEN Finished(t)
                     ELSE [@ EXCEPT !.res = "exc", !.error = fault, !.raised = TRUE]]
         /\ Spend(fault)
    /\ UNCHANGED <<ws, loop, registry, s3, detail>>

\* -------------------------------------------------------- batch finalizers
AllTerminal(batch) == \A o \in batch : deps[o].status \in TerminalStatuses

AnyFailed(batch) == \E o \in batch : deps[o].status = "failed"

\* _maybe_finalize_workshop_deploy_status: what it decides to write
\* ("none": nothing is written)
FinalizeDeployDecision(desired_status) ==
    IF ~ws.group THEN desired_status
    ELSE IF AllTerminal(CurrentBatch)
         THEN (IF AnyFailed(CurrentBatch) THEN "failed" ELSE "deployed")
         ELSE "none"

\* _maybe_finalize_workshop_status (destroy): what it decides to write
FinalizeDestroyDecision ==
    IF ~ws.group THEN "destroyed"
    ELSE IF AllTerminal(CurrentBatch)
         THEN (IF AnyFailed(CurrentBatch) THEN "failed" ELSE "destroyed")
         ELSE "none"

FinalizeRead(t, decision) ==
    /\ wk[t].pc = "fin_read"
    /\ \E fault \in Faults :
         /\ wk' = [wk EXCEPT ![t] = IF fault # "none" \/ decision = "none" THEN Finished(t)
                                     ELSE [@ EXCEPT !.pc = "fin_write", !.agg = decision]]
         /\ Spend(fault)
    /\ UNCHANGED <<ws, deps, loop, registry, s3, detail>>

\* the finalizer's reads: the workshop, its template ids, its deployments
maybe_finalize_workshop_deploy_status(t) ==
    /\ wk[t].kind = "deploy"
    /\ FinalizeRead(t, FinalizeDeployDecision(IF wk[t].res = "ok" THEN "deployed" ELSE "failed"))

maybe_finalize_workshop_status(t) ==
    /\ wk[t].kind = "destroy"
    /\ FinalizeRead(t, FinalizeDestroyDecision)

\* the finalizer's write: update_workshop_status(workshop_id, aggregate)
finalize_update_workshop_status(t) ==
    /\ wk[t].pc = "fin_write"
    /\ \E fault \in Faults :
         /\ ws' = IF fault = "none" THEN [ws EXCEPT !.status = wk[t].agg] ELSE ws
         /\ Spend(fault)
    /\ wk' = [wk EXCEPT ![t] = Finished(t)]
    /\ UNCHANGED <<deps, loop, registry, s3, detail>>

\* ------------------------------------------------------ destroy_workshop
Eligible == SelectSeq(list_deployments_by_workshop,
                      LAMBDA o : deps[o].status \in {"deployed", "failed"})

\* the first eligible deployment of each template, newest first
RECURSIVE LatestPerTemplate(_, _)
LatestPerTemplate(ids, seen) ==
    IF ids = <<>> THEN <<>>
    ELSE IF deps[Head(ids)].tpl \in seen
         THEN LatestPerTemplate(Tail(ids), seen)
         ELSE <<Head(ids)>> \o LatestPerTemplate(Tail(ids), seen \cup {deps[Head(ids)].tpl})

\* POST /deployments/workshop/{id}/destroy
destroy_workshop ==
    LET to_destroy == IF ws.group THEN LatestPerTemplate(Eligible, {})
                      ELSE <<0>>
        n == Len(to_destroy)
        base == Len(deps)
        run == hist.run + 1
    IN  /\ loop.pc = "idle"
        /\ ws.status \in {"deployed", "failed"}
        /\ Eligible # <<>>
        /\ hist.run < hist.budget
        /\ base + n <= MaxOps
        /\ deps' = deps \o [i \in 1 .. n |->
                       [tpl |-> IF ws.group THEN deps[to_destroy[i]].tpl ELSE SingleTemplate,
                        status |-> "pending", key |-> NoKey,
                        err |-> FALSE, kind |-> "destroy", run |-> run]]
        /\ ws' = [ws EXCEPT !.status = "destroying"]
        /\ wk' = [t \in Threads |->
                    IF t \in (base + 1) .. (base + n)
                    THEN QueuedThread("destroy", t, IF t = base + 1 THEN 0 ELSE t - 1)
                    ELSE wk[t]]
        /\ hist' = [hist EXCEPT !.run = run]
        /\ UNCHANGED <<loop, registry, s3, detail>>

\* ----------------------------------------------------- cancel_deployment
\* routes.py lines 83-85: only a pending or deploying deployment is cancelled
cancel_deployment(o) ==
    /\ loop.pc = "idle"
    /\ o \in 1 .. Len(deps)
    /\ deps[o].status \in {"pending", "deploying"}
    /\ hist.cancels < hist.maxCancels
    /\ loop' = [IdleLoop EXCEPT !.pc = "terminate", !.op = o]
    /\ hist' = [hist EXCEPT !.cancels = @ + 1,
                            !.acceptedRunning = IF deps[o].status = "deploying"
                                                THEN @ \cup {o} ELSE @]
    /\ UNCHANGED <<ws, deps, wk, registry, s3, detail>>

\* process_registry.terminate, lines 30-33: lookup under the lock
terminate(o) ==
    /\ loop.pc = "terminate"
    /\ loop.op = o
    /\ loop' = IF registry[o] = 0
               THEN [loop EXCEPT !.pc = "set_cancelled"]
               ELSE [loop EXCEPT !.pc = "kill", !.h = registry[o]]
    /\ UNCHANGED <<ws, deps, wk, registry, s3, hist, detail>>

\* the apply process of phase h of deployment o is still running
Live(o, h) == wk[o].pc = "apply_wait" /\ wk[o].phase = h /\ ~wk[o].killed

\* lines 34-42: proc.terminate(), wait, kill on timeout; an exception of
\* the signalling is logged and the process is left as it was
terminate_kill(o) ==
    /\ loop.pc = "kill"
    /\ loop.op = o
    /\ \E fault \in Faults :
         /\ wk' = IF fault = "none" /\ Live(o, loop.h)
                  THEN [wk EXCEPT ![o].killed = TRUE] ELSE wk
         /\ Spend(fault)
    /\ loop' = [loop EXCEPT !.pc = "unregister"]
    /\ UNCHANGED <<ws, deps, registry, s3, detail>>

\* lines 43-44: finally unregister(deployment_id)
terminate_unregister(o) ==
    /\ loop.pc = "unregister"
    /\ loop.op = o
    /\ registry' = unregister(registry, o)
    /\ loop' = [loop EXCEPT !.pc = "set_cancelled", !.h = 0]
    /\ UNCHANGED <<ws, deps, wk, s3, hist, detail>>

\* routes.py line 88
cancel_set_cancelled(o) ==
    /\ loop.pc = "set_cancelled"
    /\ loop.op = o
    /\ deps' = update_deployment_status(deps, o, "cancelled")
    /\ loop' = [loop EXCEPT !.pc = "set_pending"]
    /\ UNCHANGED <<ws, wk, registry, s3, hist, detail>>

\* routes.py line 89, and the handler returns
cancel_set_pending(o) ==
    /\ loop.pc = "set_pending"
    /\ loop.op = o
    /\ ws' = [ws EXCEPT !.status = "pending"]
    /\ loop' = IdleLoop
    /\ hist' = [hist EXCEPT !.accepted = @ \cup {o}]
    /\ UNCHANGED <<deps, wk, registry, s3, detail>>

\* ----------------------------------- check_and_destroy_expired_workshops
\* the workshop is expired and deployed or failed: status destroying, then
\* the list of destroys to run inline (0: a destroy without deployment id)
check_and_destroy_expired_workshops ==
    LET to_destroy == IF ws.group THEN LatestPerTemplate(Eligible, {})
                      ELSE IF Eligible # <<>> THEN <<Head(Eligible)>> ELSE <<0>>
        run == hist.run + 1
    IN  /\ loop.pc = "idle"
        /\ ws.status \in {"deployed", "failed"}
        /\ hist.run < hist.budget
        /\ Len(deps) < MaxOps
        /\ ws' = [ws EXCEPT !.status = "destroying"]
        /\ loop' = [IdleLoop EXCEPT !.pc = "sweep", !.todo = to_destroy]
        /\ deps' = [o \in 1 .. Len(deps) |->
                      IF o \in SeqRange(to_destroy)
                      THEN [deps[o] EXCEPT !.kind = "destroy", !.run = run]
                      ELSE deps[o]]
        /\ hist' = [hist EXCEPT !.run = run]
        /\ UNCHANGED <<wk, registry, s3, detail>>

\* the sweep calls destroy_workshop_async for the next deployment, which
\* creates the deployment row when it was given no id
sweep_destroy_workshop_async ==
    /\ loop.pc = "sweep"
    /\ wk[0].pc \in {"idle", "done"}
    /\ loop.todo # <<>>
    /\ LET o == Head(loop.todo)
           id == IF o = 0 THEN Len(deps) + 1 ELSE o
       IN  /\ deps' = IF o = 0
                      THEN create_deployment(deps, SingleTemplate, "destroy", hist.run)
                      ELSE deps
           /\ wk' = [wk EXCEPT ![0] = [IdleThread EXCEPT !.pc = "begin", !.kind = "destroy",
                                                         !.op = id]]
    /\ loop' = [loop EXCEPT !.todo = Tail(@)]
    /\ UNCHANGED <<ws, registry, s3, hist, detail>>

\* the sweep has run all its destroys and returns
sweep_return ==
    /\ loop.pc = "sweep"
    /\ wk[0].pc \in {"idle", "done"}
    /\ loop.todo = <<>>
    /\ loop' = IdleLoop
    /\ wk' = [wk EXCEPT ![0] = IdleThread]
    /\ UNCHANGED <<ws, deps, registry, s3, hist, detail>>

Next ==
    \/ deploy_workshop
    \/ destroy_workshop
    \/ check_and_destroy_expired_workshops
    \/ sweep_destroy_workshop_async
    \/ sweep_return
    \/ \E o \in OpIds :
         \/ cancel_deployment(o)
         \/ terminate(o)
         \/ terminate_kill(o)
         \/ terminate_unregister(o)
         \/ cancel_set_cancelled(o)
         \/ cancel_set_pending(o)
    \/ \E t \in Threads :
         \/ deploy_start(t)
         \/ destroy_start(t)
         \/ worker_set_deploying(t)
         \/ deploy(t)
         \/ destroy(t)
         \/ init_backend(t)
         \/ apply_terraform_phased(t)
         \/ log_callback(t)
         \/ apply_terraform_exit(t)
         \/ terraform_output(t)
         \/ destroy_terraform(t)
         \/ worker_finally(t)
         \/ worker_set_deployed(t)
         \/ worker_store_output(t)
         \/ worker_check_cancelled(t)
         \/ worker_cancelled_return(t)
         \/ worker_set_failed(t)
         \/ maybe_finalize_workshop_deploy_status(t)
         \/ maybe_finalize_workshop_status(t)
         \/ finalize_update_workshop_status(t)

Spec == Init /\ [][Next]_vars

\* ---------------------------------------------------- sequential requests
\* the same program when every request and sweep is issued after the workers
\* of the previous one have returned and nothing is cancelled; more runs fit
SeqRuns == MaxRuns + 2

Quiescent == loop.pc = "idle" /\ \A t \in Threads : wk[t].pc \in {"idle", "done"}

InitSequential ==
    /\ tfv = VarsOff
    /\ ws \in {[id |-> WorkshopId(g), group |-> g, status |-> "pending"] : g \in BOOLEAN}
    /\ deps = <<>>
    /\ wk = [t \in Threads |-> IdleThread]
    /\ loop = IdleLoop
    /\ registry = [o \in OpIds |-> 0]
    /\ s3 = {}
    /\ lb = BatcherOff
    /\ hist = [run |-> 0, budget |-> SeqRuns, accepted |-> {}, acceptedRunning |-> {},
               cancels |-> 0, maxCancels |-> MaxCancels, faults |-> 0]

NextSequential ==
    \/ Quiescent /\ deploy_workshop
    \/ Quiescent /\ destroy_workshop
    \/ Quiescent /\ check_and_destroy_expired_workshops
    \/ sweep_destroy_workshop_async
    \/ sweep_return
    \/ \E t \in Threads :
         \/ deploy_start(t)
         \/ destroy_start(t)
         \/ worker_set_deploying(t)
         \/ deploy(t)
         \/ destroy(t)
         \/ init_backend(t)
         \/ apply_terraform_phased(t)
         \/ log_callback(t)
         \/ apply_terraform_exit(t)
         \/ terraform_output(t)
         \/ destroy_terraform(t)
         \/ worker_finally(t)
         \/ worker_set_deployed(t)
         \/ worker_store_output(t)
         \/ worker_check_cancelled(t)
         \/ worker_set_failed(t)
         \/ maybe_finalize_workshop_deploy_status(t)
         \/ maybe_finalize_workshop_status(t)
         \/ finalize_update_workshop_status(t)

SpecSequential == InitSequential /\ [][NextSequential]_vars

\* ------------------------------------------------- collaborators that raise
\* the workers of one deploy request and one destroy request, when up to
\* MaxFaults calls of the persistence and lookup collaborators raise
InitFaults ==
    /\ tfv = VarsOff
    /\ ws \in {[id |-> WorkshopId(g), group |-> g, status |-> "pending"] : g \in BOOLEAN}
    /\ deps = <<>>
    /\ wk = [t \in Threads |-> IdleThread]
    /\ loop = IdleLoop
    /\ registry = [o \in OpIds |-> 0]
    /\ s3 = {}
    /\ lb = BatcherOff
    /\ hist = [run |-> 0, budget |-> MaxRuns, accepted |-> {}, acceptedRunning |-> {},
               cancels |-> 0, maxCancels |-> MaxCancels, faults |-> MaxFaults]

NextFaults ==
    \/ Quiescent /\ deploy_workshop
    \/ Quiescent /\ destroy_workshop
    \/ \E t \in Threads :
         \/ deploy_start(t)
         \/ destroy_start(t)
         \/ worker_set_deploying(t)
         \/ deploy(t)
         \/ destroy(t)
         \/ init_backend(t)
         \/ apply_terraform_phased(t)
         \/ log_callback(t)
         \/ apply_terraform_exit(t)
         \/ terraform_output(t)
         \/ destroy_terraform(t)
         \/ worker_finally(t)
         \/ worker_set_deployed(t)
         \/ worker_store_output(t)
         \/ worker_check_cancelled(t)
         \/ worker_set_failed(t)
         \/ maybe_finalize_workshop_deploy_status(t)
         \/ maybe_finalize_workshop_status(t)
         \/ finalize_update_workshop_status(t)

SpecFaults == InitFaults /\ [][NextFaults]_vars

\* ------------------------------------------------ sub-commands that hang
\* sequential deploy and destroy requests whose sub-commands may never exit
\* on their own; persistence works, nothing is cancelled, and every worker
\* that can take a step eventually takes one
WorkerStep(t) ==
    \/ deploy_start(t)
    \/ destroy_start(t)
    \/ worker_set_deploying(t)
    \/ deploy(t)
    \/ destroy(t)
    \/ init_backend(t)
    \/ apply_terraform_phased(t)
    \/ log_callback(t)
    \/ apply_terraform_exit(t)
    \/ terraform_output(t)
    \/ destroy_terraform(t)
    \/ worker_finally(t)
    \/ worker_set_deployed(t)
    \/ worker_store_output(t)
    \/ worker_check_cancelled(t)
    \/ worker_set_failed(t)
    \/ maybe_finalize_workshop_deploy_status(t)
    \/ maybe_finalize_workshop_status(t)
    \/ finalize_update_workshop_status(t)

\* the steps of a worker that end a wait or are not a wait
WorkerProgress(t) == WorkerStep(t) /\ wk'[t].pc # wk[t].pc

NextHang ==
    \/ Quiescent /\ deploy_workshop
    \/ Quiescent /\ destroy_workshop
    \/ \E t \in Threads : subprocess_hangs(t)
    \/ \E t \in Threads : WorkerStep(t)

SpecHang == Init /\ [][NextHang]_vars /\ \A t \in Threads : WF_vars(WorkerProgress(t))

\* ------------------------------------------- one deploy run, then expiry
\* one deploy request with its workers and cancel requests (one more than in
\* Spec), followed by sweeps; sub-commands exit, persistence works, workers
\* and handlers that can take a step eventually take one
InitExpiry ==
    /\ tfv = VarsOff
    /\ ws \in {[id |-> WorkshopId(g), group |-> g, status |-> "pending"] : g \in BOOLEAN}
    /\ deps = <<>>
    /\ wk = [t \in Threads |-> IdleThread]
    /\ loop = IdleLoop
    /\ registry = [o \in OpIds |-> 0]
    /\ s3 = {}
    /\ lb = BatcherOff
    /\ hist = [run |-> 0, budget |-> MaxRuns, accepted |-> {}, acceptedRunning |-> {},
               cancels |-> 0, maxCancels |-> MaxCancels + 1, faults |-> 0]

\* a sweep that has begun goes on to its end
SweepStep == sweep_destroy_workshop_async \/ sweep_return

CancelStep(o) ==
    \/ terminate(o)
    \/ terminate_kill(o)
    \/ terminate_unregister(o)
    \/ cancel_set_cancelled(o)
    \/ cancel_set_pending(o)

DeployWorkerStep(t) ==
    \/ deploy_start(t)
    \/ worker_set_deploying(t)
    \/ deploy(t)
    \/ destroy(t)
    \/ init_backend(t)
    \/ apply_terraform_phased(t)
    \/ log_callback(t)
    \/ apply_terraform_exit(t)
    \/ terraform_output(t)
    \/ destroy_terraform(t)
    \/ worker_finally(t)
    \/ worker_set_deployed(t)
    \/ worker_store_output(t)
    \/ worker_check_cancelled(t)
    \/ worker_cancelled_return(t)
    \/ worker_set_failed(t)
    \/ maybe_finalize_workshop_deploy_status(t)
    \/ maybe_finalize_workshop_status(t)
    \/ finalize_update_workshop_status(t)

NextExpiry ==
    \/ hist.run = 0 /\ deploy_workshop
    \/ check_and_destroy_expired_workshops
    \/ sweep_destroy_workshop_async
    \/ sweep_return
    \/ \E o \in OpIds : cancel_deployment(o) \/ CancelStep(o)
    \/ \E t \in Threads : DeployWorkerStep(t)

SpecExpiry ==
    /\ InitExpiry
    /\ [][NextExpiry]_vars
    /\ \A t \in Threads : WF_vars(DeployWorkerStep(t) /\ wk'[t].pc # wk[t].pc)
    /\ WF_vars(SweepStep)
    /\ WF_vars(\E o \in OpIds : CancelStep(o))

\* ------------------------------------------------ rejected deploy requests
\* deploy_workshop when template k of the workshop has no zip_file_path: the
\* handler raises 400 at that template.  For a group workshop the deployments
\* of the templates before it have been created and their tasks added; the
\* framework runs or drops the tasks of a request that ended in an exception.
\* The workshop status is not written
deploy_workshop_rejected ==
    LET tids == get_template_ids_for_workshop
        n == Len(tids)
        base == Len(deps)
        run == hist.run + 1
    IN  /\ loop.pc = "idle"
        /\ hist.run < hist.budget
        /\ base + n <= MaxOps
        /\ \E k \in 1 .. n, tasks_run \in BOOLEAN :
             /\ deps' = deps \o [i \in 1 .. (k - 1) |->
                            [tpl |-> tids[i], status |-> "pending", key |-> NoKey,
                             err |-> FALSE, kind |-> "deploy", run |-> run]]
             /\ wk' = [t \in Threads |->
                         IF tasks_run /\ t \in (base + 1) .. (base + k - 1)
                         THEN QueuedThread("deploy", t, IF t = base + 1 THEN 0 ELSE t - 1)
                         ELSE wk[t]]
        /\ hist' = [hist EXCEPT !.run = run]
        /\ UNCHANGED <<ws, loop, registry, s3, detail>>

\* deploy requests, accepted and rejected, and their workers
NextDispatch ==
    \/ deploy_workshop
    \/ deploy_workshop_rejected
    \/ \E t \in Threads :
         \/ deploy_start(t)
         \/ worker_set_deploying(t)
         \/ deploy(t)
         \/ init_backend(t)
         \/ apply_terraform_phased(t)
         \/ log_callback(t)
         \/ apply_terraform_exit(t)
         \/ terraform_output(t)
         \/ worker_finally(t)
         \/ worker_set_deployed(t)
         \/ worker_store_output(t)
         \/ worker_check_cancelled(t)
         \/ worker_set_failed(t)
         \/ maybe_finalize_workshop_deploy_status(t)
         \/ finalize_update_workshop_status(t)

SpecDispatch == Init /\ [][NextDispatch]_vars

\* ------------------------------------------------- cancel of one request
\* one deploy request, its workers and cancel requests, when up to MaxFaults
\* calls (signalling the process included) raise
InitCancel ==
    /\ tfv = VarsOff
    /\ ws \in {[id |-> WorkshopId(g), group |-> g, status |-> "pending"] : g \in BOOLEAN}
    /\ deps = <<>>
    /\ wk = [t \in Threads |-> IdleThread]
    /\ loop = IdleLoop
    /\ registry = [o \in OpIds |-> 0]
    /\ s3 = {}
    /\ lb = BatcherOff
    /\ hist = [run |-> 0, budget |-> 1, accepted |-> {}, acceptedRunning |-> {},
               cancels |-> 0, maxCancels |-> MaxCancels, faults |-> MaxFaults]

NextCancel ==
    \/ deploy_workshop
    \/ \E o \in OpIds :
         \/ cancel_deployment(o)
         \/ terminate(o)
         \/ terminate_kill(o)
         \/ terminate_unregister(o)
         \/ cancel_set_cancelled(o)
         \/ cancel_set_pending(o)
    \/ \E t \in Threads :
         \/ deploy_start(t)
         \/ worker_set_deploying(t)
         \/ deploy(t)
         \/ init_backend(t)
         \/ apply_terraform_phased(t)
         \/ log_callback(t)
         \/ apply_terraform_exit(t)
         \/ terraform_output(t)
         \/ worker_finally(t)
         \/ worker_set_deployed(t)
         \/ worker_store_output(t)
         \/ worker_check_cancelled(t)
         \/ worker_cancelled_return(t)
         \/ worker_set_failed(t)
         \/ maybe_finalize_workshop_deploy_status(t)
         \/ finalize_update_workshop_status(t)

SpecCancel == InitCancel /\ [][NextCancel]_vars

\* ------------------------------------------------------ log batcher, run
\* One deploy worker run seen from its log batcher: the worker thread (which
\* calls log_callback itself before the apply and _flush_logs in its finally
\* block), the reader thread of the apply (stream_output), and the persisted
\* deployment_logs.  Lines are numbered in ingestion order; 0 is a blank line.
orchestration == <<ws, deps, wk, loop, registry, s3, hist>>

IsNonBlank(line) == line # 0

\* [line for line in log_lines if line.strip()]
Filtered(log_lines) == SelectSeq(log_lines, IsNonBlank)

InitLogs ==
    /\ tfv = VarsOff
    /\ ws = [id |-> WorkshopId(FALSE), group |-> FALSE, status |-> "deploying"]
    /\ deps = <<>>
    /\ wk = [t \in Threads |-> IdleThread]
    /\ loop = IdleLoop
    /\ registry = [o \in OpIds |-> 0]
    /\ s3 = {}
    /\ hist = [run |-> 0, budget |-> MaxRuns, accepted |-> {}, acceptedRunning |-> {},
               cancels |-> 0, maxCancels |-> MaxCancels, faults |-> 0]
    /\ lb = [BatcherOff EXCEPT !.status = "deploying", !.faults = MaxFaults,
                               !.th["worker"].pc = "start"]

LogFaults == IF lb.faults > 0 THEN {FALSE, TRUE} ELSE {FALSE}

\* where a thread is once its call of log_callback or _flush_logs has returned
Returned(th) ==
    [lb.th[th] EXCEPT !.cb = "none", !.arg = <<>>, !.existing = <<>>, !.read_ok = FALSE,
                      !.pc = IF lb.th[th].pc = "final" THEN "returned" ELSE @]

\* log_callback, lines 76-79: filter, return if nothing is left, extend the buffer
log_callback_extend(th) ==
    /\ lb.th[th].pc \in {"start", "run"}
    /\ lb.th[th].cb = "none"
    /\ lb.next <= MaxLines
    /\ \E log_lines \in {<<lb.next>>, <<0>>, <<0, lb.next>>} :
         LET filtered == Filtered(log_lines)
         IN  /\ filtered # <<>>
             /\ lb' = [lb EXCEPT !.log_buffer = @ \o filtered,
                                 !.next = @ + 1,
                                 !.th[th].cb = "check"]
    /\ UNCHANGED <<orchestration, tfv>>

\* _flush_logs up to the call of update_deployment_status: nothing to do for
\* an empty buffer, else logs=list(log_buffer)
FlushCall(th) ==
    IF lb.log_buffer = <<>>
    THEN lb' = [lb EXCEPT !.th[th] = Returned(th)]
    ELSE lb' = [lb EXCEPT !.th[th].cb = "read", !.th[th].arg = lb.log_buffer,
                          !.calls = Append(@, lb.log_buffer)]

\* log_callback, lines 80-81: flush when the interval has elapsed
log_callback_check(th) ==
    /\ lb.th[th].cb = "check"
    /\ IF lb.elapsed THEN FlushCall(th)
       ELSE lb' = [lb EXCEPT !.th[th] = Returned(th)]
    /\ UNCHANGED <<orchestration, tfv>>

\* the worker's finally block: _flush_logs()
flush_logs_final ==
    /\ lb.th["worker"].pc = "final"
    /\ lb.th["worker"].cb = "none"
    /\ FlushCall("worker")
    /\ UNCHANGED <<orchestration, tfv>>

\* update_deployment_status, lines 67-75: read the stored logs; when the
\* read raises the update goes on without a logs field
update_read_logs(th) ==
    /\ lb.th[th].cb = "read"
    /\ \E raises \in LogFaults :
         lb' = [lb EXCEPT !.th[th].cb = "write",
                          !.th[th].existing = IF raises THEN <<>> ELSE lb.logs,
                          !.th[th].read_ok = ~raises,
                          !.faults = IF raises THEN @ - 1 ELSE @]
    /\ UNCHANGED <<orchestration, tfv>>

\* update_deployment_status, lines 89-92: the update of the row; when it
\* raises _flush_logs logs the error and keeps the buffer
update_write_logs(th) ==
    /\ lb.th[th].cb = "write"
    /\ \E raises \in LogFaults :
         IF raises
         THEN lb' = [lb EXCEPT !.th[th] = Returned(th), !.faults = @ - 1]
         ELSE lb' = [lb EXCEPT !.status = "deploying",
                               !.logs = IF lb.th[th].read_ok
                                        THEN lb.th[th].existing \o lb.th[th].arg ELSE @,
                               !.th[th].cb = "clear"]
    /\ UNCHANGED <<orchestration, tfv>>

\* _flush_logs, lines 70-71: log_buffer.clear(), last_flush_time = now
flush_logs_clear(th) ==
    /\ lb.th[th].cb = "clear"
    /\ lb' = [lb EXCEPT !.log_buffer = <<>>, !.elapsed = FALSE, !.th[th] = Returned(th)]
    /\ UNCHANGED <<orchestration, tfv>>

\* LOG_FLUSH_INTERVAL_SEC have passed since last_flush_time
interval_elapses ==
    /\ ~lb.elapsed
    /\ lb.th["worker"].pc # "returned"
    /\ lb' = [lb EXCEPT !.elapsed = TRUE]
    /\ UNCHANGED <<orchestration, tfv>>

\* _apply_terraform: Popen, the reader thread is started, proc.wait()
stream_output_start ==
    /\ lb.th["worker"].pc = "start"
    /\ lb.th["worker"].cb = "none"
    /\ lb' = [lb EXCEPT !.th["worker"].pc = "wait", !.th["reader"].pc = "run"]
    /\ UNCHANGED <<orchestration, tfv>>

\* stream_output: readline returns '' (end of the stream), the thread ends
stream_output_eof ==
    /\ lb.th["reader"].pc = "run"
    /\ lb.th["reader"].cb = "none"
    /\ lb' = [lb EXCEPT !.th["reader"].pc = "end"]
    /\ UNCHANGED <<orchestration, tfv>>

\* proc.wait() returned; stream_thread.join(timeout=5) returns when the
\* reader has ended or after 5 seconds; deploy returns to the worker
stream_thread_join ==
    /\ lb.th["worker"].pc = "wait"
    /\ \E timed_out \in BOOLEAN :
         /\ timed_out \/ lb.th["reader"].pc = "end"
         /\ timed_out => lb.th["reader"].pc # "end"
    /\ lb' = [lb EXCEPT !.th["worker"].pc = "final"]
    /\ UNCHANGED <<orchestration, tfv>>

\* cancel_deployment: update_deployment_status(id, "cancelled"), no logs
status_only_write ==
    /\ lb.status = "deploying"
    /\ lb.th["worker"].pc # "returned"
    /\ lb' = [lb EXCEPT !.status = "cancelled"]
    /\ UNCHANGED <<orchestration, tfv>>

NextLogs ==
    \/ interval_elapses
    \/ stream_output_start
    \/ stream_output_eof
    \/ stream_thread_join
    \/ flush_logs_final
    \/ status_only_write
    \/ \E th \in LogThreads :
         \/ log_callback_extend(th)
         \/ log_callback_check(th)
         \/ update_read_logs(th)
         \/ update_write_logs(th)
         \/ flush_logs_clear(th)

SpecLogs == InitLogs /\ [][NextLogs]_vars

\* ------------------------------------------------- variable maps, request
\* One single-template deploy request followed from the route to the
\* terraform.tfvars.json the deployer writes.
InitVars ==
    /\ ws = [id |-> WorkshopId(FALSE), group |-> FALSE, status |-> "pending"]
    /\ deps = <<>>
    /\ wk = [t \in Threads |-> IdleThread]
    /\ loop = IdleLoop
    /\ registry = [o \in OpIds |-> 0]
    /\ s3 = {}
    /\ hist = [run |-> 0, budget |-> MaxRuns, accepted |-> {}, acceptedRunning |-> {},
               cancels |-> 0, maxCancels |-> MaxCancels, faults |-> 0]
    /\ lb = BatcherOff
    /\ \E m \in VarMaps : tfv = [VarsOff EXCEPT !.pc = "request", !.terraform_vars = m]

\* deploy_workshop, lines 122-139: safe_terraform_vars goes into the
\* deployment row and to the worker
deploy_workshop_vars ==
    /\ tfv.pc = "request"
    /\ tfv' = [tfv EXCEPT !.pc = "created",
                          !.stored = _obfuscate_terraform_vars(tfv.terraform_vars)]
    /\ UNCHANGED <<orchestration, lb>>

\* deploy: tf_vars = _prepare_variables(terraform_vars), _create_tfvars
create_tfvars ==
    /\ tfv.pc = "created"
    /\ tfv' = [tfv EXCEPT !.pc = "written", !.tfvars = _prepare_variables(tfv.stored)]
    /\ UNCHANGED <<orchestration, lb>>

NextVars == deploy_workshop_vars \/ create_tfvars

SpecVars == InitVars /\ [][NextVars]_vars

\* ================================================================ claims
Rank(status) == CASE status = "pending" -> 0
                  [] status = "deploying" -> 1
                  [] OTHER -> 2

Created == 1 .. Len(deps)

\* C1: the persisted status of every deployment only moves forward, pending
\* -> deploying -> {deployed, failed, cancelled}, and a terminal status is
\* never changed by a later write.
C1_StatusOnlyMovesForward ==
    [][\A o \in Created :
         /\ Rank(deps'[o].status) >= Rank(deps[o].status)
         /\ deps[o].status \in TerminalStatuses => deps'[o].status = deps[o].status]_vars

\* C2: once a cancel request on a deployment has been accepted and has
\* returned, and the deployment's worker has returned, the deployment's
\* status is cancelled (the worker did not overwrite it).
C2_CancelWins ==
    \A o \in hist.accepted :
        (loop.pc = "idle" /\ wk[o].pc = "done") => deps[o].status = "cancelled"

\* C3: single-resource workshop with one deploy run: after a cancel accepted
\* on the running deployment has returned and the worker has returned, the
\* workshop status is pending.
C3_CancelledWorkshopPending ==
    \A o \in hist.accepted \cap hist.acceptedRunning :
        (~ws.group /\ hist.run = 1 /\ Quiescent) => ws.status = "pending"

\* C4: while a deployment is in status deploying and a terraform
\* subprocess runs for it, the registry holds that subprocess under the
\* deployment id.
C4_RunningSubprocessRegistered ==
    \A t \in Threads :
        (wk[t].sub # "none" /\ ~wk[t].killed /\ deps[Op(t)].status = "deploying")
            => (wk[t].sub = "apply" /\ registry[Op(t)] = wk[t].phase)

\* C5: for each template of the workshop at most one deployment is in
\* status deploying.
C5_OneRunningPerTemplate ==
    \A o1, o2 \in Created :
        (deps[o1].tpl = deps[o2].tpl /\ deps[o1].status = "deploying"
            /\ deps[o2].status = "deploying") => o1 = o2

\* C6: a finalizer decides to write the workshop status only when all N
\* most recent deployments of the workshop are terminal.
C6_FinalizeOnlyWhenAllTerminal ==
    [][\A t \in Threads :
         (wk[t].pc = "fin_read" /\ wk'[t].pc = "fin_write") => AllTerminal(CurrentBatch)]_vars

\* C7: when a finalizer writes the workshop status while a deployment of
\* the current batch is failed, it writes failed (here: the writing worker is
\* the only one active).
C7_FailureDominates ==
    [][\A t \in Threads :
         (/\ wk[t].pc = "fin_write"
          /\ wk'[t].pc = "done"
          /\ \A u \in Threads \ {t} : wk[u].pc \in {"idle", "done"}
          /\ loop.pc \in {"idle", "sweep"}
          /\ AnyFailed(CurrentBatch))
            => ws'.status = "failed"]_vars

\* C8: group workshop, one deploy run: once every worker of the batch has
\* returned and the batch is terminal, the workshop status is the aggregate
\* of the set of statuses of the batch (failed if any failed, else deployed),
\* whichever sibling finished or was cancelled last.
C8_FinalStatusIsAggregate ==
    (ws.group /\ hist.run = 1 /\ Quiescent /\ AllTerminal(CurrentBatch))
        => ws.status = (IF AnyFailed(CurrentBatch) THEN "failed" ELSE "deployed")

\* C9: the aggregate a finalizer of the current run decides on for a group
\* workshop is the aggregate of the deployments dispatched in the current
\* run alone.
CurrentRun == {o \in Created : deps[o].run = hist.run}

C9_AggregateFromCurrentRunOnly ==
    [][\A t \in Threads :
         (/\ ws.group
          /\ wk[t].pc = "fin_read"
          /\ wk'[t].pc = "fin_write"
          /\ Op(t) \in CurrentRun)
            => wk'[t].agg = (IF AnyFailed(CurrentRun) THEN "failed"
                             ELSE IF wk[t].kind = "deploy" THEN "deployed" ELSE "destroyed")]_vars

\* C10: every state key computed or recorded for a (workshop, template)
\* pair, by a deploy or by a destroy and under whatever deployment id, is
\* the same key.
KeysOf(tpl) ==
    {wk[t].key : t \in {u \in Threads : wk[u].key # NoKey /\ deps[Op(u)].tpl = tpl}}
        \cup {deps[o].key : o \in {d \in Created : deps[d].key # NoKey /\ deps[d].tpl = tpl}}

C10_SameStateKey ==
    \A tpl \in SeqRange(GroupTemplates) : Cardinality(KeysOf(tpl)) <= 1

\* a destroy has computed its key while a deploy of the same template has
\* recorded one
C10_Witness ==
    \E o \in Created, t \in Threads :
        /\ deps[o].kind = "deploy" /\ deps[o].key # NoKey
        /\ wk[t].kind = "destroy" /\ wk[t].key # NoKey
        /\ deps[Op(t)].tpl = deps[o].tpl

\* C11: a destroy invoked while the state object of its (workshop, template)
\* does not exist starts no terraform sub-command and returns a failure; with
\* Terraform files in the bundle the error is the state-not-found error; the
\* worker then records failed, and the deployment is failed when the worker
\* reaches its finalizer (cancelled if a cancel request targets it).
CancelTargets == hist.accepted \cup (IF loop.pc \in {"terminate", "kill", "unregister",
                                                     "set_cancelled", "set_pending"}
                                     THEN {loop.op} ELSE {})

Destroyed(tpl) ==
    \E obj \in s3 : obj.key = StateKeyDestroy(ws.id, tpl) /\ ~obj.resources

C12_SecondDestroyFailsFast ==
    [][\A t \in Threads :
         (/\ wk[t].kind = "destroy"
          /\ wk[t].pc = "exec"
          /\ wk'[t].pc # "exec"
          /\ wk'[t].res # "exc"
          /\ Destroyed(deps[Op(t)].tpl))
            => /\ wk'[t].pc = "w_fail"
               /\ wk'[t].sub = "none"
               /\ wk'[t].error \in {"state_not_found", "no_tf_files"}
               /\ s3' = s3]_vars

\* C13: when a worker run in which an exception was raised (loading the
\* deployment, the workshop or the template, constructing the executor,
\* fetching the bundle, writing a status; not the best-effort output write nor
\* the finalizer) returns, its deployment, unless cancelled, is failed and
\* carries the exception text.
C13_ExceptionEndsFailed ==
    [][\A t \in Threads :
         (/\ wk[t].pc \notin {"idle", "queued", "done"}
          /\ wk'[t].pc = "done"
          /\ wk[t].raised
          /\ deps'[Op(t)].status # "cancelled")
            => /\ deps'[Op(t)].status = "failed"
               /\ wk[t].error \notin {"", "none"} => deps'[Op(t)].err]_vars

\* C14: every deployment whose status is failed has a non-empty error
\* message.
C14_FailedHasError ==
    \A o \in Created : deps[o].status = "failed" => deps[o].err

\* C15: the persisted logs of a deployment only grow: every value is a
\* prefix of the next.
IsPrefix(a, b) == Len(a) <= Len(b) /\ SubSeq(b, 1, Len(a)) = a

C15_LogsOnlyGrow == [][IsPrefix(lb.logs, lb.logs')]_vars

\* C16: lines ingested before the interval has elapsed cause no persistence
\* call at ingest time; the flush calls carry each ingested line once, in
\* ingestion order and without lines of earlier calls; and when the run has
\* ended every ingested line has been carried by a flush call.
RECURSIVE Flatten(_)
Flatten(ss) == IF ss = <<>> THEN <<>> ELSE Head(ss) \o Flatten(Tail(ss))

RunEnded == lb.th["worker"].pc = "returned" /\ lb.th["reader"].pc \in {"off", "end"}

C16_OneFlushPerBatch ==
    [][/\ \A th \in LogThreads :
            (lb.th[th].cb = "check" /\ ~lb.elapsed /\ lb'.th[th].cb # "check")
                => lb'.calls = lb.calls
       /\ \A i \in 1 .. Len(Flatten(lb'.calls)) : Flatten(lb'.calls)[i] = i
       /\ RunEnded' => Len(Flatten(lb'.calls)) = lb'.next - 1]_vars

\* C17: neither the variables stored on the deployment row nor the
\* variables file contains a key of the deployer's credential key list, and
\* both hold every other key of the caller's map with its value.
C17_NoCredentialKeys ==
    /\ tfv.pc \in {"created", "written"} =>
           tfv.stored = Without(tfv.terraform_vars, credential_keys)
    /\ tfv.pc = "written" =>
           tfv.tfvars = Without(tfv.terraform_vars, credential_keys)

\* C18: terminate on an id without handle returns false and changes neither
\* the registry nor a process; a terminate that found a handle returns with
\* the process it looked up exited and no registry entry for the id.
C18_TerminateStopsProcess ==
    [][\A o \in OpIds :
         /\ (loop.pc = "terminate" /\ loop.op = o /\ registry[o] = 0 /\ loop' # loop)
               => /\ loop'.pc = "set_cancelled"
                  /\ registry' = registry
                  /\ wk' = wk
         /\ (loop.pc = "unregister" /\ loop.op = o /\ loop'.pc = "set_cancelled")
               => /\ registry'[o] = 0
                  /\ ~(wk'[o].pc = "apply_wait" /\ wk'[o].phase = loop.h /\ ~wk'[o].killed)]_vars

\* C19: a worker returns only out of its batch finalizer: every step in
\* which a deploy or destroy worker returns is a step of the finalizer.
C19_FinalizerBeforeReturn ==
    [][\A t \in Threads :
         (wk[t].pc \notin {"idle", "done"} /\ wk'[t].pc = "done")
            => wk[t].pc \in {"fin_read", "fin_write"}]_vars

\* C20: once a deploy worker has returned, the registry holds no entry for
\* its deployment id.
C20_ReturnedDeployUnregistered ==
    \A t \in Threads :
        (wk[t].kind = "deploy" /\ wk[t].pc = "done") => registry[Op(t)] = 0

\* a deploy worker has returned while a terminate that found its handle
\* has not unregistered yet: that unregister finds the id absent
C20_Witness ==
    \E t \in Threads :
        /\ wk[t].kind = "deploy"
        /\ wk[t].pc = "done"
        /\ loop.pc = "unregister"
        /\ loop.op = Op(t)
        /\ loop.h # 0
        /\ registry[Op(t)] = 0

\* C21: when the deploy worker attempts to record the outputs the deployment
\* is already deployed with its state key, and whether or not that write
\* raises the deployment stays deployed with the same state key and the
\* worker goes to the batch finalizer with desired status deployed.
C21_OutputWriteBestEffort ==
    [][\A t \in Threads :
         (wk[t].pc = "w_out" /\ wk'[t] # wk[t])
            => /\ deps[Op(t)].status = "deployed"
               /\ deps[Op(t)].key # NoKey
               /\ deps'[Op(t)].status = "deployed"
               /\ deps'[Op(t)].key = deps[Op(t)].key
               /\ wk'[t].pc = "fin_read"
               /\ wk'[t].res = "ok"]_vars

\* the deploy worker of a single-template workshop is at the finalizer after
\* a successful apply, and the one call that raised was the output write
C21_Witness ==
    /\ ~ws.group
    /\ hist.run = 1
    /\ hist.faults < MaxFaults
    /\ \E t \in Threads :
         /\ wk[t].kind = "deploy"
         /\ wk[t].pc = "fin_read"
         /\ wk[t].res = "ok"
         /\ ~wk[t].raised
         /\ deps[Op(t)].status = "deployed"

\* C22: when a flush attempt of the log batcher returns, after a write that
\* succeeded or raised, the in-memory buffer is empty.
C22_BufferEmptyAfterFlush ==
    [][\A th \in LogThreads :
         (lb.th[th].cb \in {"write", "clear"} /\ lb'.th[th].cb = "none")
            => lb'.log_buffer = <<>>]_vars

C24_StartedReachesTerminal ==
    \A t \in Threads :
        (wk[t].pc = "begin")
            ~> (Op(t) \in 1 .. Len(deps) /\ deps[Op(t)].status \in TerminalStatuses)

\* C25: every destroy run the sweep starts gets a new deployment record,
\* created pending before the executor is invoked, and the run works on
\* that record.
C25_SweepCreatesRecord ==
    [][(loop.pc = "sweep" /\ wk'[0].pc = "begin" /\ wk[0].pc # "begin")
          => /\ Len(deps') = Len(deps) + 1
             /\ wk'[0].op = Len(deps')
             /\ deps'[Len(deps')].status = "pending"]_vars

\* C26: once a cancel request for a deployment has returned, no sub-command
\* runs on behalf of that deployment.
C26_NoSubprocessAfterCancel ==
    \A o \in hist.accepted : \A t \in Threads : Op(t) = o => wk[t].sub = "none"

\* C27: terminate removes from the registry only the handle it looked up: an
\* entry that by now holds the live process of a later apply phase is left
\* in place.
C27_TerminateRemovesOwnHandle ==
    [][\A o \in OpIds :
         (/\ loop.pc = "unregister"
          /\ loop.op = o
          /\ loop'.pc # "unregister"
          /\ registry[o] # 0
          /\ registry[o] # loop.h
          /\ Live(o, registry[o]))
            => registry'[o] = registry[o]]_vars

\* C28: a cancel whose deployment has become deployed or failed by the time
\* it writes changes neither the deployment's status nor the workshop's.
C28_CancelOnlyIfStillRunning ==
    [][\A o \in OpIds :
         /\ (/\ loop.pc = "set_cancelled"
             /\ loop.op = o
             /\ loop'.pc # "set_cancelled"
             /\ deps[o].status \in {"deployed", "failed"})
               => deps'[o].status = deps[o].status
         /\ (/\ loop.pc = "set_pending"
             /\ loop.op = o
             /\ loop'.pc # "set_pending"
             /\ deps[o].status \in {"deployed", "failed"})
               => ws'.status = ws.status]_vars

\* C29: a workshop in deploying or destroying eventually has one of the
\* statuses deployed, destroyed, failed, pending.
C29_WorkshopLeavesTransient ==
    (ws.status \in {"deploying", "destroying"})
        ~> (ws.status \in {"deployed", "destroyed", "failed", "pending"})

\* C30: a deploy request creates either no deployment or one pending
\* deployment per template with a worker queued for each and the workshop
\* set to deploying; a pending deployment always has a worker that is queued
\* or has not yet written deploying.
C30_DispatchAllOrNothing ==
    [][/\ Len(deps') > Len(deps)
          => /\ Len(deps') = Len(deps) + Len(get_template_ids_for_workshop)
             /\ ws'.status = "deploying"
             /\ \A o \in (Len(deps) + 1) .. Len(deps') :
                   deps'[o].status = "pending" /\ wk'[o].pc = "queued"
       /\ \A o \in 1 .. Len(deps') :
             deps'[o].status = "pending" => wk'[o].pc \in {"queued", "begin"}]_vars
====
